---- MODULE Spec2Model ----
(***************************************************************************)
(* Model of src/documents/backup_system.py: class BackupSystem.            *)
(*                                                                         *)
(* A path or a pattern is a sequence of one-character strings, so that     *)
(* str.lower, str.startswith, str.endswith, the `in` substring test and    *)
(* os.path.splitext are computed on characters as the code computes them.  *)
(* The file system and the signals (Ctrl+C) are the environment.           *)
(***************************************************************************)
EXTENDS Integers, Sequences, FiniteSets

(* ----------------------------- bounds ---------------------------------- *)

\* number of distinct file contents; content 0 stands for "no such file"
NumContents == 2
\* minutes between scheduled sweeps (config "check_interval_minutes")
IntervalTicks == 1
\* longest path / longest pattern drawn for should_exclude_file on its own
MaxPathLen == 3
MaxPatLen == 3

(* ------------------------ program constants ---------------------------- *)

BytesPerMB == 1048576

(* ----------------------------- strings --------------------------------- *)

\* str.lower() on one character
LowerChar(ch) ==
    CASE ch = "A" -> "a"
      [] ch = "B" -> "b"
      [] ch = "T" -> "t"
      [] ch = "X" -> "x"
      [] OTHER -> ch

\* str.lower()
Lower(s) == [i \in 1..Len(s) |-> LowerChar(s[i])]

\* s[1:]
DropFirst(s) == SubSeq(s, 2, Len(s))

\* s.startswith(pre)
StartsWith(s, pre) ==
    /\ Len(pre) <= Len(s)
    /\ SubSeq(s, 1, Len(pre)) = pre

\* s.endswith(suf)
EndsWith(s, suf) ==
    /\ Len(suf) <= Len(s)
    /\ SubSeq(s, Len(s) - Len(suf) + 1, Len(s)) = suf

\* sub in s
Contains(s, sub) ==
    \E i \in 0..(Len(s) - Len(sub)) : SubSeq(s, i + 1, i + Len(sub)) = sub

\* the elements of a list
Range(s) == {s[i] : i \in 1..Len(s)}

\* os.path.join(root, file) on POSIX, root not ending in a separator
PathJoin(root, file) == root \o <<"/">> \o file

\* os.path.splitext(file)[1], file holding no separator: the text from the
\* last dot on, or "" when there is no dot or only dots precede it
SplitExt(file) ==
    LET dots == {i \in 1..Len(file) : file[i] = "."}
    IN  IF dots = {} THEN <<>>
        ELSE LET d == CHOOSE i \in dots : \A j \in dots : j <= i
             IN  IF \E k \in 1..(d - 1) : file[k] # "."
                    THEN SubSeq(file, d, Len(file))
                    ELSE <<>>

(* --------------------- configuration and files ------------------------- *)

\* config["directories"]: one watched directory
Root == <<"d">>

\* the names os.walk can report under Root
FileNames == { <<"a", ".", "T">>, <<"b", ".", "x">> }

\* file_path = os.path.join(root, file)
Paths == { PathJoin(Root, f) : f \in FileNames }

\* the `file` of a file_path
FileOf(p) == CHOOSE f \in FileNames : PathJoin(Root, f) = p

\* the configurations a process can be started with (load_config): the
\* extension allow-list, the exclusion patterns, the remote URL and the
\* size limit
Configs ==
    { [file_extensions |-> << <<".", "t">> >>, exclude_patterns |-> <<>>,
       remote_url |-> "", max_file_size_mb |-> 1],
      [file_extensions |-> <<>>, exclude_patterns |-> << <<"*", ".", "x">> >>,
       remote_url |-> "origin-url", max_file_size_mb |-> 2],
      [file_extensions |-> <<>>, exclude_patterns |-> <<>>,
       remote_url |-> "origin-url", max_file_size_mb |-> 2] }

\* file contents; 0 = the file does not exist
Contents == 1..NumContents
FileStates == 0..NumContents

\* os.path.getsize of a file holding content c, in bytes: c megabytes
SizeOf(c) == c * BytesPerMB

\* hashlib.md5(...).hexdigest() of content c: a non-empty string, taken
\* collision-free on the contents drawn here
Md5(c) == <<"md5", c>>

\* the "" that calculate_file_hash returns on an error
NoDigest == <<>>

(* --------------------------- pure functions ---------------------------- *)

\* calculate_file_hash: the digest, or "" when reading raised
calculate_file_hash(content, fails) ==
    IF fails THEN NoDigest ELSE Md5(content)

\* one turn of the pattern loop of should_exclude_file; path_str is the
\* lowercased path, the pattern is used as configured
PatternMatches(pattern, path_str) ==
    IF StartsWith(pattern, <<"*", ".">>)
       THEN EndsWith(path_str, DropFirst(pattern))
       ELSE Contains(path_str, pattern)

\* the pattern loop of should_exclude_file
PatternExcluded(file_path, patterns) ==
    LET path_str == Lower(file_path)
    IN  \E i \in 1..Len(patterns) : PatternMatches(patterns[i], path_str)

SizeExcluded_AtLimit(size, limit_mb, fails) ==
    IF fails THEN FALSE
    ELSE size >= limit_mb * BytesPerMB

\* the size check of should_exclude_file: size / (1024 * 1024) is exact
\* (a division by a power of two), and an error of getsize is swallowed
SizeExcluded(size, limit_mb, fails) ==
    IF fails THEN FALSE
    ELSE size > limit_mb * BytesPerMB

\* should_exclude_file
should_exclude_file(file_path, patterns, size, limit_mb, fails) ==
    \/ PatternExcluded(file_path, patterns)
    \/ SizeExcluded(size, limit_mb, fails)

ExtensionAllowed_Inverted(file, file_extensions) ==
    IF file_extensions = <<>>
       THEN Lower(SplitExt(file)) \in Range(file_extensions)
       ELSE TRUE

\* the extension check of get_files_to_backup
ExtensionAllowed(file, file_extensions) ==
    IF file_extensions # <<>>
       THEN Lower(SplitExt(file)) \in Range(file_extensions)
       ELSE TRUE

\* get_files_to_backup, as a set: the files found by os.walk that pass
\* should_exclude_file and the extension check. files[p] is the content of
\* p (0 = absent), sizeFails the paths whose getsize raises
get_files_to_backup(files, cfg, sizeFails) ==
    { p \in Paths :
        /\ files[p] # 0
        /\ ~should_exclude_file(p, cfg.exclude_patterns, SizeOf(files[p]),
                                cfg.max_file_size_mb, p \in sizeFails)
        /\ ExtensionAllowed(FileOf(p), cfg.file_extensions) }

SkipFile_Never(current_hash) == FALSE

\* `if not current_hash: continue` of check_for_changes
SkipFile(current_hash) == current_hash = NoDigest

IsChanged_Always(hashes, file_path, current_hash) == TRUE

IsChanged_OnlyKnown(hashes, file_path, current_hash) ==
    /\ file_path \in DOMAIN hashes
    /\ hashes[file_path] # current_hash

IsChanged_OnlyNew(hashes, file_path, current_hash) ==
    file_path \notin DOMAIN hashes

\* the test of check_for_changes on one hashed file
IsChanged(hashes, file_path, current_hash) ==
    \/ file_path \notin DOMAIN hashes
    \/ hashes[file_path] # current_hash

StoreDigests_Deferred(hashes, changed, digests) == hashes

StoreDigests_Pruning(hashes, changed, digests) ==
    [ p \in ((DOMAIN hashes) \cap (DOMAIN digests)) \cup changed |->
        IF p \in changed THEN digests[p] ELSE hashes[p] ]

StoreDigests_Rebuilt(hashes, changed, digests) ==
    [ p \in changed |-> digests[p] ]

\* self.file_hashes[file_path] = current_hash, for every changed file
StoreDigests(hashes, changed, digests) ==
    [ p \in (DOMAIN hashes) \cup changed |->
        IF p \in changed THEN digests[p] ELSE hashes[p] ]

\* check_for_changes on the candidates current_files: the returned
\* changed_files and self.file_hashes afterwards. The loop touches one key
\* per file, so its result does not depend on the order of the files
check_for_changes(hashes, current_files, files, hashFails) ==
    LET digests == [ p \in current_files |->
                       calculate_file_hash(files[p], p \in hashFails) ]
        changed == { p \in current_files :
                       /\ ~SkipFile(digests[p])
                       /\ IsChanged(hashes, p, digests[p]) }
    IN  [ changed_files |-> changed,
          file_hashes |-> StoreDigests(hashes, changed, digests) ]

(* ------------------------------- state --------------------------------- *)

VARIABLES
    fs,              \* the watched files as the last sweep found them:
                     \*   path -> content, 0 = absent
    config,          \* self.config
    mirror,          \* the files under backup_repo_path: path -> content,
                     \*   0 = absent
    file_hashes,     \* self.file_hashes: a dict path -> digest
    pc,              \* where the process is
    first,           \* the sweep is the call of run_scheduler itself (line 277)
    due,             \* sleeps left until the scheduled job is pending
    current_files,   \* the candidates of the last check_for_changes
    changed_files,   \* the set the last check_for_changes returned
    hashFailed,      \* the candidates whose hash raised in that sweep
    sizeFailed,      \* the files whose getsize raised in that sweep
    ops,             \* the sync steps backup_cycle invoked in that sweep
    copyFailed,      \* the changed files whose copy raised in that sweep
    commit,          \* that sweep's repo.index.commit: none, ok, failed
    push,            \* that sweep's origin.push: none, skipped, ok, failed
    same,            \* files whose content then was that of the sweep before
    prevHashed,      \* files hashed with success in the sweep before
    prevSyncFailed,  \* changed files of the sweep before whose sync failed
    prevHashFailed,  \* candidates whose hash raised in the sweep before
    raised,          \* the last backup_cycle ended in its except (line 265)
    x_path,          \* should_exclude_file on its own: the path,
    x_patterns,      \*   the configured patterns,
    x_size,          \*   the size of the file,
    x_result,        \*   and what it returned ("none" before the call)
    m_changed,       \* create_commit on its own: the changed set,
    m_message,       \*   and the commit message, a sequence of lines
    t_path,          \* one copy of copy_files_to_repo on its own: the
                     \*   path of the changed file,
    t_copy           \*   and what the copy did

procVars == <<file_hashes, first, due, current_files, changed_files,
              hashFailed, sizeFailed, ops, copyFailed, commit, push,
              same, prevHashed, prevSyncFailed, prevHashFailed, raised>>
xVars == <<x_path, x_patterns, x_size, x_result, m_changed, m_message,
           t_path, t_copy>>
vars == <<fs, config, mirror, pc, procVars, xVars>>

InSweep == {"detect", "copy", "commit", "push"}
Waiting == {"pending", "sleep"}
Exited == {"stopped", "crashed"}

NoFiles == [p \in Paths |-> 0]

\* a process before its first sweep: __init__ leaves file_hashes empty
FreshProcess ==
    /\ file_hashes = <<>>
    /\ first = TRUE
    /\ due = IntervalTicks
    /\ current_files = {}
    /\ changed_files = {}
    /\ hashFailed = {}
    /\ sizeFailed = {}
    /\ ops = <<>>
    /\ copyFailed = {}
    /\ commit = "none"
    /\ push = "none"
    /\ same = {}
    /\ prevHashed = {}
    /\ prevSyncFailed = {}
    /\ prevHashFailed = {}
    /\ raised = FALSE

\* a path as pathlib holds it: its parts, and whether it starts at the
\* root of the file system
NoPath == [absolute |-> FALSE, parts |-> <<>>]

NotCopied == [outcome |-> "none", at |-> <<>>]

TIdle ==
    /\ t_path = NoPath
    /\ t_copy = NotCopied

XIdle ==
    /\ x_path = <<>>
    /\ x_patterns = <<>>
    /\ x_size = 0
    /\ x_result = "none"
    /\ m_changed = {}
    /\ m_message = <<>>
    /\ TIdle

Init ==
    /\ fs = NoFiles
    /\ config \in Configs
    /\ mirror = NoFiles
    /\ pc = "start"
    /\ FreshProcess
    /\ XIdle

(* ------------------------------ actions -------------------------------- *)

\* the changed files of the last sweep whose copy, commit or push failed
SyncFailed ==
    { p \in changed_files :
        p \in copyFailed \/ commit = "failed" \/ push = "failed" }

\* backup_cycle returns: to run_scheduler's loop after the first sweep
\* (any part of the interval may have passed by then), to run_pending's
\* caller after a scheduled one (the job is due a full interval later)
EndCycle ==
    IF first
       THEN /\ pc' = "pending"
            /\ due' \in 0..IntervalTicks
       ELSE /\ pc' = "sleep"
            /\ due' = IntervalTicks

NothingChanged_Ignored(changed) == FALSE

\* `if not changed_files: return` of backup_cycle
NothingChanged(changed) == changed = {}

\* backup_cycle is entered: what the model remembers of the sweep before
\* is the files it hashed and the files whose sync failed
StartCycle ==
    /\ pc' = "detect"
    /\ prevHashed' = current_files \ hashFailed
    /\ prevSyncFailed' = SyncFailed
    /\ prevHashFailed' = hashFailed
    /\ current_files' = {}
    /\ changed_files' = {}
    /\ hashFailed' = {}
    /\ sizeFailed' = {}
    /\ same' = {}
    /\ ops' = <<>>
    /\ copyFailed' = {}
    /\ commit' = "none"
    /\ push' = "none"

RunScheduler_WaitFirst ==
    /\ pc = "start"
    /\ pc' = "sleep"
    /\ UNCHANGED <<fs, config, mirror, procVars, xVars>>

\* run_scheduler up to the first backup_cycle() (line 277)
RunScheduler ==
    /\ pc = "start"
    /\ StartCycle
    /\ UNCHANGED <<fs, config, mirror, file_hashes, first, due, raised,
                   xVars>>

\* backup_cycle: check_for_changes and the test of its result. The walk
\* finds the files as the environment left them (written, created or
\* deleted since the sweep before); getsize and the hashing may raise
Detect ==
    /\ pc = "detect"
    /\ \E files \in [Paths -> FileStates] :
         \E sizeFails \in SUBSET { p \in Paths :
                                     /\ files[p] # 0
                                     /\ ~PatternExcluded(p, config.exclude_patterns) } :
           LET found == get_files_to_backup(files, config, sizeFails)
           IN  \E hashFails \in SUBSET found :
                 LET r == check_for_changes(file_hashes, found, files, hashFails)
                 IN  /\ fs' = files
                     /\ current_files' = found
                     /\ sizeFailed' = sizeFails
                     /\ hashFailed' = hashFails
                     /\ changed_files' = r.changed_files
                     /\ file_hashes' = r.file_hashes
                     /\ same' = IF first THEN {}
                                ELSE { p \in Paths : files[p] # 0 /\ files[p] = fs[p] }
                     /\ raised' = FALSE
                     /\ IF NothingChanged(r.changed_files)
                           THEN EndCycle
                           ELSE pc' = "copy" /\ due' = due
    /\ UNCHANGED <<config, mirror, first, ops, copyFailed, commit, push,
                   prevHashed, prevSyncFailed, prevHashFailed, xVars>>

copy_files_to_repo_AllOrNothing(tree, changed, files, fails) ==
    IF fails = {} THEN [p \in Paths |-> IF p \in changed THEN files[p] ELSE tree[p]]
    ELSE tree

\* copy_files_to_repo: the tree under backup_repo_path after the loop.
\* shutil.copy2 writes the content of every changed file whose copy did
\* not raise over its copy in the tree; nothing else in the tree is touched
copy_files_to_repo(tree, changed, files, fails) ==
    [p \in Paths |-> IF p \in changed \ fails THEN files[p] ELSE tree[p]]

\* copy_files_to_repo: each copy may raise (the file is gone, the target
\* cannot be written), and the loop goes on
CopyFiles ==
    /\ pc = "copy"
    /\ \E fails \in SUBSET changed_files :
         /\ copyFailed' = fails
         /\ mirror' = copy_files_to_repo(mirror, changed_files, fs, fails)
    /\ ops' = Append(ops, "copy")
    /\ pc' = "commit"
    /\ UNCHANGED <<fs, config, file_hashes, first, due, current_files,
                   changed_files, hashFailed, sizeFailed, commit, push,
                   same, prevHashed, prevSyncFailed, prevHashFailed, raised,
                   xVars>>

\* ord(c) of the characters of the paths drawn
Ord(c) ==
    CASE c = "." -> 46
      [] c = "/" -> 47
      [] c = "B" -> 66
      [] c = "T" -> 84
      [] c = "a" -> 97
      [] c = "b" -> 98
      [] c = "d" -> 100
      [] c = "x" -> 120

\* s < t of two str: the code points at the first place they differ, the
\* shorter first when one is the beginning of the other
StrLess(s, t) ==
    \/ /\ Len(s) < Len(t)
       /\ \A i \in 1..Len(s) : s[i] = t[i]
    \/ \E i \in 1..Len(s) :
         /\ i <= Len(t)
         /\ \A j \in 1..(i - 1) : s[j] = t[j]
         /\ Ord(s[i]) < Ord(t[i])

RECURSIVE sorted_Unsorted(_)
sorted_Unsorted(S) ==
    IF S = {} THEN <<>>
    ELSE LET m == CHOOSE x \in S : \A y \in S : x = y \/ StrLess(y, x)
         IN  <<m>> \o sorted_Unsorted(S \ {m})

\* sorted(changed_files): the paths in ascending order
RECURSIVE sorted(_)
sorted(S) ==
    IF S = {} THEN <<>>
    ELSE LET m == CHOOSE x \in S : \A y \in S : x = y \/ StrLess(x, y)
         IN  <<m>> \o sorted(S \ {m})

DigitChars == <<"0", "1", "2", "3", "4", "5", "6", "7", "8", "9">>

\* the decimal digits of n, as the f-string formats len(changed_files)
RECURSIVE Decimal(_)
Decimal(n) ==
    IF n < Len(DigitChars)
       THEN <<DigitChars[n + 1]>>
       ELSE Decimal(n \div Len(DigitChars))
               \o <<DigitChars[(n % Len(DigitChars)) + 1]>>

\* `if len(changed_files) <= 10` of create_commit
CommitListLimit == 10

ListsFiles_Below(n) == n < CommitListLimit

ListsFiles(n) == n <= CommitListLimit

\* the lines of the message: the title (with the time of the commit)
HeaderLine == <<"backup", " ", "-", " ", "timestamp">>
CountPrefix == <<"files", ":", " ">>
CountLine(n) == CountPrefix \o Decimal(n)
ListTitle == <<"changed", ":">>
FilePrefix == <<"-", " ">>
FileLine(file_path) == FilePrefix \o file_path

\* the commit message create_commit builds, line by line
commit_message(changed) ==
    LET files == sorted(changed)
        head  == <<HeaderLine, <<>>, CountLine(Cardinality(changed))>>
    IN  IF ListsFiles(Cardinality(changed))
           THEN head \o <<<<>>, ListTitle>>
                     \o [i \in 1..Len(files) |-> FileLine(files[i])]
           ELSE head

\* create_commit: an error of git add or of the commit is logged, and
\* create_commit returns
CreateCommit ==
    /\ pc = "commit"
    /\ commit' \in {"ok", "failed"}
    /\ ops' = Append(ops, "commit")
    /\ pc' = "push"
    /\ UNCHANGED <<fs, config, mirror, file_hashes, first, due, current_files,
                   changed_files, hashFailed, sizeFailed, copyFailed, push,
                   same, prevHashed, prevSyncFailed, prevHashFailed, raised,
                   xVars>>

NoRemote_Never(remote_url) == FALSE

\* `if not self.config["remote_url"]` of push_to_remote
NoRemote(remote_url) == remote_url = ""

\* push_to_remote, and the end of backup_cycle
PushToRemote ==
    /\ pc = "push"
    /\ IF NoRemote(config.remote_url)
          THEN push' = "skipped"
          ELSE push' \in {"ok", "failed"}
    /\ ops' = Append(ops, "push")
    /\ EndCycle
    /\ UNCHANGED <<fs, config, mirror, file_hashes, first, current_files,
                   changed_files, hashFailed, sizeFailed, copyFailed, commit,
                   same, prevHashed, prevSyncFailed, prevHashFailed, raised,
                   xVars>>

\* schedule.run_pending(): runs backup_cycle when the job is due
RunPending ==
    /\ pc = "pending"
    /\ IF due = 0
          THEN /\ StartCycle
               /\ first' = FALSE
          ELSE /\ pc' = "sleep"
               /\ UNCHANGED <<first, current_files, changed_files, hashFailed,
                              sizeFailed, ops, copyFailed, commit, push, same,
                              prevHashed, prevSyncFailed, prevHashFailed>>
    /\ UNCHANGED <<fs, config, mirror, file_hashes, due, raised, xVars>>

\* time.sleep(60)
Sleep ==
    /\ pc = "sleep"
    /\ due' = IF due > 0 THEN due - 1 ELSE 0
    /\ pc' = "pending"
    /\ UNCHANGED <<fs, config, mirror, file_hashes, first, current_files,
                   changed_files, hashFailed, sizeFailed, ops, copyFailed,
                   commit, push, same, prevHashed, prevSyncFailed,
                   prevHashFailed, raised, xVars>>

\* the process is gone, and its memory with it
ProcessGone ==
    /\ fs' = NoFiles
    /\ file_hashes' = <<>>
    /\ first' = TRUE
    /\ due' = IntervalTicks
    /\ current_files' = {}
    /\ changed_files' = {}
    /\ hashFailed' = {}
    /\ sizeFailed' = {}
    /\ ops' = <<>>
    /\ copyFailed' = {}
    /\ commit' = "none"
    /\ push' = "none"
    /\ same' = {}
    /\ prevHashed' = {}
    /\ prevSyncFailed' = {}
    /\ prevHashFailed' = {}
    /\ raised' = FALSE

\* where a KeyboardInterrupt raised at pc ends: `except Exception` in
\* backup_cycle and its callees does not catch it; run_scheduler catches
\* it in its loop (lines 279-284) and returns; the first backup_cycle()
\* (line 277) stands before that try, so there it leaves run_scheduler
\* and main as an unhandled exception
AfterInterrupt(at, isFirst) ==
    IF at \in InSweep /\ isFirst THEN "crashed" ELSE "stopped"

\* Ctrl+C: Python raises KeyboardInterrupt in the main thread wherever it
\* is, in a sweep or in the loop. (Raised inside os.path.getsize it is
\* swallowed by the bare except of should_exclude_file: no change of state)
Interrupt ==
    /\ pc \in InSweep \cup Waiting
    /\ pc' = AfterInterrupt(pc, first)
    /\ ProcessGone
    /\ UNCHANGED <<config, mirror, xVars>>

DetectRaises_Uncaught ==
    /\ pc = "detect"
    /\ raised' = TRUE
    /\ pc' = "crashed"
    /\ UNCHANGED <<fs, config, mirror, file_hashes, first, due, current_files,
                   changed_files, hashFailed, sizeFailed, ops, copyFailed,
                   commit, push, same, prevHashed, prevSyncFailed,
                   prevHashFailed, xVars>>

\* backup_cycle: an exception leaves check_for_changes. Its loop catches
\* what the hashing of a file raises, so the exception comes from
\* get_files_to_backup (line 165: a RecursionError or MemoryError of the
\* walk, an ill-typed configuration value), before any digest is stored;
\* `except Exception` (line 265) catches it, logs, and backup_cycle returns
DetectRaises ==
    /\ pc = "detect"
    /\ raised' = TRUE
    /\ EndCycle
    /\ UNCHANGED <<fs, config, mirror, file_hashes, first, current_files,
                   changed_files, hashFailed, sizeFailed, ops, copyFailed,
                   commit, push, same, prevHashed, prevSyncFailed,
                   prevHashFailed, xVars>>

\* the program is started again, with the configuration on disk
Restart ==
    /\ pc \in Exited
    /\ pc' = "start"
    /\ UNCHANGED <<fs, config, mirror, procVars, xVars>>

Next ==
    \/ RunScheduler
    \/ Detect
    \/ DetectRaises
    \/ CopyFiles
    \/ CreateCommit
    \/ PushToRemote
    \/ RunPending
    \/ Sleep
    \/ Interrupt
    \/ Restart

Spec == Init /\ [][Next]_vars

\* time.sleep(60) returns and schedule.run_pending() reaches its test: the
\* loop of run_scheduler goes on. Nothing bounds the steps of a sweep (a
\* hanging copy, commit or push hangs the loop), so they get no fairness
LiveSpec == Spec /\ WF_vars(Sleep) /\ WF_vars(RunPending)

(* ------------------- should_exclude_file on its own -------------------- *)

XChars == {"a", "A", ".", "*"}

XStrings(n) == UNION { [1..k -> XChars] : k \in 0..n }

\* a pattern that matches none of the paths drawn, ahead of the one drawn:
\* the loop goes on to the next pattern
XOtherPattern == <<"*", ".", "b">>

XPatternLists ==
    {<<>>} \cup { <<q>> : q \in XStrings(MaxPatLen) }
           \cup { <<XOtherPattern, q>> : q \in XStrings(MaxPatLen) }

\* the configuration whose size limit is the smallest content drawn
XConfig == CHOOSE c \in Configs : SizeOf(1) = c.max_file_size_mb * BytesPerMB

XInit ==
    /\ fs = NoFiles
    /\ config = XConfig
    /\ mirror = NoFiles
    /\ pc = "start"
    /\ FreshProcess
    /\ x_path \in XStrings(MaxPathLen)
    /\ x_patterns \in XPatternLists
    /\ x_size \in {SizeOf(1), SizeOf(2)}
    /\ x_result = "none"
    /\ m_changed = {}
    /\ m_message = <<>>
    /\ TIdle

\* should_exclude_file(x_path) under exclude_patterns = x_patterns
XExclude ==
    /\ x_result = "none"
    /\ x_result' = IF should_exclude_file(x_path, x_patterns, x_size,
                                           config.max_file_size_mb, FALSE)
                      THEN "excluded" ELSE "kept"
    /\ UNCHANGED <<fs, config, mirror, pc, procVars, x_path, x_patterns,
                   x_size, m_changed, m_message, t_path, t_copy>>

XNext == XExclude

ExcludeSpec == XInit /\ [][XNext]_vars

(* ---------------------- create_commit on its own ----------------------- *)

MaxChanged == 11

CommitChars == {"B", "a", "b"}

\* the paths os.walk gives for files of Root named with one or two of
\* the characters
CommitPaths ==
    { PathJoin(Root, <<c>>) : c \in CommitChars }
        \cup { PathJoin(Root, <<c, d>>) : c \in CommitChars, d \in CommitChars }

\* backup_cycle calls create_commit with a changed set that is not empty
MInit ==
    /\ fs = NoFiles
    /\ config = XConfig
    /\ mirror = NoFiles
    /\ pc = "start"
    /\ FreshProcess
    /\ x_path = <<>>
    /\ x_patterns = <<>>
    /\ x_size = 0
    /\ x_result = "none"
    /\ m_changed \in { S \in SUBSET CommitPaths :
                         S # {} /\ Cardinality(S) <= MaxChanged }
    /\ m_message = <<>>
    /\ TIdle

\* create_commit(m_changed) builds its message
MCommit ==
    /\ m_message = <<>>
    /\ m_message' = commit_message(m_changed)
    /\ UNCHANGED <<fs, config, mirror, pc, procVars, x_path, x_patterns,
                   x_size, x_result, m_changed, t_path, t_copy>>

MNext == MCommit

CommitSpec == MInit /\ [][MNext]_vars

(* ----------------- one copy of copy_files_to_repo on its own ---------- *)

MaxDirDepth == 3

\* Path.cwd(), and Path(self.config["backup_repo_path"]) of the default
\* configuration ("./backup_repo"), a path relative to it
Cwd == <<"w">>
RepoPath == <<"r">>

\* the parts of a configured directory (pathlib drops "." and keeps ".."),
\* and Path(os.path.join(root, file)) of a file the walk finds under it
DirParts == UNION { [1..k -> {"..", "w", "r"}] : k \in 0..MaxDirDepth }
FilePaths ==
    { [absolute |-> a, parts |-> d \o <<"f">>] : a \in BOOLEAN, d \in DirParts }

\* the file the operating system reaches by the parts from the root: ".."
\* steps to the parent directory, and stays at the root from the root
RECURSIVE Resolve(_)
Resolve(parts) ==
    IF parts = <<>> THEN <<>>
    ELSE LET dir  == Resolve(SubSeq(parts, 1, Len(parts) - 1))
             last == parts[Len(parts)]
         IN  IF last # ".." THEN Append(dir, last)
             ELSE IF dir = <<>> THEN <<>>
             ELSE SubSeq(dir, 1, Len(dir) - 1)

\* where a path is in the file system, a relative one taken from the cwd
Location(path) ==
    Resolve(IF path.absolute THEN path.parts ELSE Cwd \o path.parts)

\* source_path.relative_to(Path.cwd()) raises ValueError: the parts of
\* the cwd are not the first parts of the path
RelativeToRaises(path) == ~StartsWith(path.parts, Cwd)

\* relative_path of copy_files_to_repo (line 191)
relative_path(source_path) ==
    IF source_path.absolute
       THEN [absolute |-> FALSE,
             parts |-> SubSeq(source_path.parts, Len(Cwd) + 1,
                              Len(source_path.parts))]
       ELSE source_path

\* target_path = repo_path / relative_path (line 194)
target_path(source_path) ==
    [absolute |-> FALSE, parts |-> RepoPath \o relative_path(source_path).parts]

\* one turn of the loop of copy_files_to_repo: ValueError of relative_to
\* and SameFileError of shutil.copy2 are caught and nothing is written;
\* otherwise copy2 writes the file the target path leads to
CopyOne(file_path) ==
    IF file_path.absolute /\ RelativeToRaises(file_path)
       THEN [outcome |-> "raised", at |-> <<>>]
    ELSE IF Location(target_path(file_path)) = Location(file_path)
       THEN [outcome |-> "raised", at |-> <<>>]
    ELSE [outcome |-> "written", at |-> Location(target_path(file_path))]

TInit ==
    /\ fs = NoFiles
    /\ config = XConfig
    /\ mirror = NoFiles
    /\ pc = "start"
    /\ FreshProcess
    /\ x_path = <<>>
    /\ x_patterns = <<>>
    /\ x_size = 0
    /\ x_result = "none"
    /\ m_changed = {}
    /\ m_message = <<>>
    /\ t_path \in FilePaths
    /\ t_copy = NotCopied

\* the turn of the loop of copy_files_to_repo for file_path = t_path
TCopy ==
    /\ t_copy = NotCopied
    /\ t_copy' = CopyOne(t_path)
    /\ UNCHANGED <<fs, config, mirror, pc, procVars, x_path, x_patterns,
                   x_size, x_result, m_changed, m_message, t_path>>

TNext == TCopy

TargetSpec == TInit /\ [][TNext]_vars

(* ------------------------------ claims --------------------------------- *)

\* check_for_changes has run, and returned, in the sweep the state shows
Swept ==
    /\ pc \in {"copy", "commit", "push", "pending", "sleep"}
    /\ ~raised

\* the limit of the size check, in bytes
LimitBytes == config.max_file_size_mb * BytesPerMB

\* the lowercased extension of the file of path p
LowerExt(p) == Lower(SplitExt(FileOf(p)))

\* C1, as stated: a file whose content is the same at two consecutive
\* sweeps of one process is not in the changed set of the second sweep.
C1_UnchangedNotReported ==
    same \cap changed_files = {}

\* C1, amended: a file whose content is the same at two consecutive sweeps
\* of one process, and which the first of the two hashed with success, is
\* not in the changed set of the second sweep.
C1_UnchangedHashedNotReported ==
    (same \cap prevHashed) \cap changed_files = {}

\* C1, witness: a second sweep hashes a file it hashed in the sweep
\* before, with the same content, and does not report it.
C1_Witness ==
    \E p \in same \cap prevHashed :
        /\ p \in current_files \ hashFailed
        /\ p \notin changed_files

\* C2, as stated: file_hashes holds no entry for a path whose most recent
\* hash attempt failed.
C2_NoEntryAfterFailedHash ==
    \A p \in hashFailed : p \notin DOMAIN file_hashes

\* C2, amended: a failed hash leaves the entry of the path as it was
\* before the sweep (absent when it was absent, the old digest when there
\* was one), and the "" of a failed hash is never stored.
C2_FailedHashLeavesEntry ==
    [][ /\ \A p \in hashFailed' :
             /\ (p \in DOMAIN file_hashes') = (p \in DOMAIN file_hashes)
             /\ p \in DOMAIN file_hashes => file_hashes'[p] = file_hashes[p]
        /\ \A p \in DOMAIN file_hashes' : file_hashes'[p] # NoDigest ]_vars

\* C2, witness: the hash of a file failed in the last sweep, and
\* file_hashes still holds the digest of an older content of it.
C2_Witness ==
    \E p \in hashFailed :
        /\ p \in DOMAIN file_hashes
        /\ file_hashes[p] # Md5(fs[p])

\* C3: the entry of every changed path holds the new digest when the copy,
\* the commit and the push are still to run; and a file whose sync failed
\* in the sweep before and whose content is the same at this sweep is not
\* in this sweep's changed set.
C3_DigestStoredBeforeSync ==
    /\ \A p \in changed_files :
         /\ p \in DOMAIN file_hashes
         /\ file_hashes[p] = Md5(fs[p])
    /\ (same \cap prevSyncFailed) \cap changed_files = {}

\* C3, witness: a file whose copy, commit or push failed in the sweep
\* before is hashed again with the same content and is not reported.
C3_Witness ==
    \E p \in same \cap prevSyncFailed :
        /\ p \in current_files \ hashFailed
        /\ p \notin changed_files

\* C4, as stated: a path that contains a configured exclusion substring,
\* compared case-insensitively, or whose lowercased form ends with the
\* suffix of a configured *.ext pattern, is excluded.
C4_ExcludedWhateverTheCase ==
    (/\ x_result # "none"
     /\ \E i \in 1..Len(x_patterns) :
          IF StartsWith(x_patterns[i], <<"*", ".">>)
             THEN EndsWith(Lower(x_path), DropFirst(x_patterns[i]))
             ELSE Contains(Lower(x_path), Lower(x_patterns[i])))
    => x_result = "excluded"

\* C5, as stated: a file over the size limit is no candidate of the
\* sweep, a file exactly at the limit is not excluded by its size, and
\* neither is a file whose size check failed.
C5_OversizeNeverCandidate ==
    /\ \A p \in current_files : SizeOf(fs[p]) <= LimitBytes
    /\ Swept =>
         \A p \in Paths :
            ( /\ fs[p] # 0
              /\ SizeOf(fs[p]) = LimitBytes \/ p \in sizeFailed
              /\ ~PatternExcluded(p, config.exclude_patterns)
              /\ ExtensionAllowed(FileOf(p), config.file_extensions) )
            => p \in current_files

\* C5, amended: a file whose size check succeeds and finds it over the
\* limit is no candidate of the sweep (and so not in the changed set), a
\* file exactly at the limit is not excluded by its size, and neither is a
\* file whose size check failed.
C5_MeasuredOversizeNeverCandidate ==
    /\ \A p \in current_files : SizeOf(fs[p]) > LimitBytes => p \in sizeFailed
    /\ changed_files \subseteq current_files
    /\ Swept =>
         \A p \in Paths :
            ( /\ fs[p] # 0
              /\ SizeOf(fs[p]) = LimitBytes \/ p \in sizeFailed
              /\ ~PatternExcluded(p, config.exclude_patterns)
              /\ ExtensionAllowed(FileOf(p), config.file_extensions) )
            => p \in current_files

\* C5, witness: a later sweep finds a file with another content than the
\* sweep before, measures it over the limit, and leaves it out, though
\* neither a pattern nor its extension excludes it.
C5_Witness ==
    \E p \in Paths :
        /\ Swept /\ ~first
        /\ fs[p] # 0 /\ p \notin same
        /\ SizeOf(fs[p]) > LimitBytes /\ p \notin sizeFailed
        /\ ~PatternExcluded(p, config.exclude_patterns)
        /\ ExtensionAllowed(FileOf(p), config.file_extensions)
        /\ p \notin current_files

\* C6: with a non-empty allow-list every candidate (and so every changed
\* file) has its lowercased extension in the list; with an empty one every
\* file that should_exclude_file lets pass is a candidate.
C6_ExtensionAllowList ==
    /\ config.file_extensions # <<>> =>
         \A p \in current_files \cup changed_files :
            LowerExt(p) \in Range(config.file_extensions)
    /\ (config.file_extensions = <<>> /\ Swept) =>
         \A p \in Paths :
            ( /\ fs[p] # 0
              /\ ~should_exclude_file(p, config.exclude_patterns, SizeOf(fs[p]),
                                      config.max_file_size_mb, p \in sizeFailed) )
            => p \in current_files

\* C6, witness: under a non-empty allow-list a later sweep finds a file
\* of another extension with another content than the sweep before, and
\* leaves it out though should_exclude_file lets it pass.
C6_Witness ==
    \E p \in Paths :
        /\ Swept /\ ~first
        /\ fs[p] # 0 /\ p \notin same
        /\ config.file_extensions # <<>>
        /\ LowerExt(p) \notin Range(config.file_extensions)
        /\ ~should_exclude_file(p, config.exclude_patterns, SizeOf(fs[p]),
                                config.max_file_size_mb, p \in sizeFailed)
        /\ p \notin current_files

\* C7: after the first sweep of a process, which starts with file_hashes
\* empty, the changed set is the set of the candidates whose hash
\* succeeded.
C7_FirstSweepReportsAllHashed ==
    (first /\ Swept) => changed_files = current_files \ hashFailed

\* C7, witness: the first sweep of a process has reported a file and has
\* failed to hash another.
C7_Witness ==
    /\ first /\ Swept
    /\ changed_files # {}
    /\ hashFailed # {}

\* C8: the sync steps invoked in a sweep are copy, commit, push in that
\* order; none of them is invoked in a sweep whose changed set is empty,
\* and a sweep with a non-empty changed set has invoked all three when
\* backup_cycle returns.
C8_SyncStepsInOrder ==
    /\ ops \in { <<>>, <<"copy">>, <<"copy", "commit">>,
                 <<"copy", "commit", "push">> }
    /\ changed_files = {} =>
         /\ ops = <<>>
         /\ copyFailed = {} /\ commit = "none" /\ push = "none"
    /\ (pc \in Waiting /\ changed_files # {}) =>
         ops = <<"copy", "commit", "push">>

\* C8, witness: a sweep with a non-empty changed set has returned.
C8_Witness ==
    /\ pc \in Waiting
    /\ changed_files # {}
    /\ ops = <<"copy", "commit", "push">>

\* C9, as stated: no push is attempted in a sweep whose commit failed.
C9_NoPushAfterFailedCommit ==
    commit = "failed" => push \in {"none", "skipped"}

\* C10, as stated: an interrupt never ends a sweep in flight (detection,
\* copy, commit or push), in the first sweep or in a scheduled one.
C10_NoCancelInSweep ==
    [][ (pc \in InSweep) => (pc' \notin Exited) ]_vars

\* the last sweep failed: it ended in the except of backup_cycle, or the
\* hash or the copy of a file, the commit or the push raised in it
SweepFailed ==
    \/ raised
    \/ hashFailed # {}
    \/ copyFailed # {}
    \/ commit = "failed"
    \/ push = "failed"

\* C11: an exception that reaches the except of backup_cycle ends the
\* sweep and not the process, and after a failed sweep the loop of
\* run_scheduler starts the next sweep, unless an interrupt ends it first.
C11_FailedSweepThenNextSweep ==
    /\ [][ (pc = "detect" /\ raised') => (pc' \in Waiting) ]_vars
    /\ (pc \in Waiting /\ SweepFailed) ~> (pc = "detect" \/ pc \in Exited)

\* C11, witness: a scheduled sweep starts after a sweep that ended in the
\* except of backup_cycle.
C11_Witness ==
    /\ pc = "detect"
    /\ ~first
    /\ raised

\* C12: when no remote URL is configured, no sweep attempts a push (the
\* push step returns before it reaches the remote), and every sweep that
\* has come to its end with a changed set that is not empty has attempted
\* the commit.
C12_NoRemoteNoPushStillCommit ==
    config.remote_url = "" =>
        /\ push \in {"none", "skipped"}
        /\ (pc \in Waiting /\ changed_files # {}) =>
               commit \in {"ok", "failed"}

\* C12, witness: a sweep without a remote URL has reported changes,
\* attempted the commit, skipped the push and returned.
C12_Witness ==
    /\ config.remote_url = ""
    /\ pc \in Waiting
    /\ changed_files # {}
    /\ commit \in {"ok", "failed"}
    /\ push = "skipped"

\* the number the digits ds write
RECURSIVE ParseDecimal(_)
ParseDecimal(ds) ==
    IF ds = <<>> THEN 0
    ELSE LET d == CHOOSE k \in 1..Len(DigitChars) : DigitChars[k] = ds[Len(ds)]
         IN  ParseDecimal(SubSeq(ds, 1, Len(ds) - 1)) * Len(DigitChars) + (d - 1)

\* the lines of message m that list a file, and the paths they list
FileLines(m) == SelectSeq(m, LAMBDA l : StartsWith(l, FilePrefix))
ListedPaths(m) ==
    [i \in 1..Len(FileLines(m)) |->
        SubSeq(FileLines(m)[i], Len(FilePrefix) + 1, Len(FileLines(m)[i]))]

\* the number the message gives as the count of changed files
MessageCount(m) ==
    LET l == CHOOSE k \in 1..Len(m) : StartsWith(m[k], CountPrefix)
    IN  ParseDecimal(SubSeq(m[l], Len(CountPrefix) + 1, Len(m[l])))

\* C13: the message of a changed set of at most 10 paths lists each path
\* of the set once and no other, in ascending order; the message of a
\* larger set lists no file; either message gives the size of the set as
\* its count of files.
C13_CommitMessageListsUpToTen ==
    m_message # <<>> =>
        LET listed == ListedPaths(m_message)
        IN  /\ MessageCount(m_message) = Cardinality(m_changed)
            /\ Cardinality(m_changed) <= CommitListLimit =>
                   /\ Len(listed) = Cardinality(m_changed)
                   /\ Range(listed) = m_changed
                   /\ \A i \in 1..(Len(listed) - 1) :
                          StrLess(listed[i], listed[i + 1])
            /\ Cardinality(m_changed) > CommitListLimit =>
                   /\ listed = <<>>
                   /\ ListTitle \notin Range(m_message)

\* C13, witness: the message of a changed set of exactly 10 paths is
\* built, and lists them.
C13_Witness ==
    /\ Cardinality(m_changed) = CommitListLimit
    /\ m_message # <<>>
    /\ Len(ListedPaths(m_message)) = CommitListLimit

\* the files whose hash raised in the sweep before and is computed in the
\* sweep the state shows
Retried == prevHashFailed \cap (current_files \ hashFailed)

\* C14, as stated: a file whose hash fails is not in the changed set of
\* that sweep; and a file whose hash failed in the sweep before and is
\* computed in this sweep is in this sweep's changed set whenever its
\* content is not the content of its copy in the mirror.
C14_RetriedWhenUnsynced ==
    /\ hashFailed \cap changed_files = {}
    /\ Swept =>
         \A p \in Retried : fs[p] # mirror[p] => p \in changed_files

\* C14, amended: a file whose hash fails is not in the changed set of that
\* sweep; and a file whose hash failed in the sweep before and is computed
\* in this sweep is in this sweep's changed set exactly when file_hashes
\* held no entry for it or the digest of another content (the content it
\* had when a sweep of this process last reported it), synced or not.
C14_RetriedAgainstStoredDigest ==
    [][ pc = "detect" =>
          /\ hashFailed' \cap changed_files' = {}
          /\ \A p \in prevHashFailed \cap (current_files' \ hashFailed') :
                (p \in changed_files') <=>
                   (\/ p \notin DOMAIN file_hashes
                    \/ file_hashes[p] # Md5(fs'[p])) ]_vars

\* C14, witness: the hash of a file that has a copy in the mirror failed
\* in the sweep before; this sweep computes it, finds another digest than
\* the stored one and reports the file.
C14_Witness ==
    /\ pc = "copy"
    /\ \E p \in Retried :
         /\ p \in changed_files
         /\ mirror[p] # 0
         /\ mirror[p] # fs[p]

\* C15: once the copy step of a sweep is over, every changed file whose
\* own copy did not fail has its content in the mirror, whichever other
\* copies failed; and a sweep in which a copy failed (be it every copy)
\* still comes to its end having attempted the commit and, when a remote
\* URL is configured, the push.
C15_CopyFailureDoesNotAbort ==
    /\ pc \in {"commit", "push"} \cup Waiting =>
         \A p \in changed_files \ copyFailed : mirror[p] = fs[p]
    /\ (pc \in Waiting /\ copyFailed # {}) =>
         /\ ops = <<"copy", "commit", "push">>
         /\ commit \in {"ok", "failed"}
         /\ config.remote_url # "" => push \in {"ok", "failed"}

\* C15, witness: a sweep has returned in which the copy of one changed
\* file failed and another changed file was copied, and the commit and
\* the push to the configured remote were attempted.
C15_Witness ==
    /\ pc \in Waiting
    /\ \E p \in copyFailed : mirror[p] # fs[p]
    /\ \E q \in changed_files \ copyFailed : mirror[q] = fs[q]
    /\ commit \in {"ok", "failed"}
    /\ push \in {"ok", "failed"}

\* the backup working tree, and the files inside it
BackupRoot == Cwd \o RepoPath
InsideBackupRoot(at) == StartsWith(at, BackupRoot) /\ Len(at) > Len(BackupRoot)

\* C16: whatever the path of a changed file (absolute and outside the
\* working directory, or relative with parent-directory parts), a copy
\* that writes a file writes it inside the backup working tree, at the
\* backup root joined with the path taken relative to the working
\* directory.
C16_CopiesStayInBackupRoot ==
    t_copy.outcome = "written" =>
        /\ InsideBackupRoot(t_copy.at)
        /\ t_copy.at = BackupRoot \o relative_path(t_path).parts

\* C17: the first thing run_scheduler does is a sweep, before any sleep
\* and any run_pending; a sweep starts only from run_scheduler's start or
\* from run_pending, never while a sweep is under way; and the waiting of
\* the loop begins only from a sweep that has come to its end: the push
\* step is over, or nothing had changed, or the error was caught.
C17_FirstSweepAtOnceNoOverlap ==
    [][ /\ (pc = "start") => (pc' = "detect" /\ first')
        /\ (pc' = "detect" /\ pc # "detect") => (pc \in {"start", "pending"})
        /\ (pc' \in Waiting /\ pc \notin Waiting) =>
              \/ pc = "push" /\ Len(ops') = Len(ops) + 1
              \/ pc = "detect" /\ (raised' \/ changed_files' = {}) ]_vars

\* C17, witness: the loop waits after a scheduled sweep that ran all its
\* steps.
C17_Witness ==
    /\ pc = "sleep"
    /\ ~first
    /\ ops = <<"copy", "commit", "push">>

\* C18: when check_for_changes returns, every path of the changed set is
\* a candidate of that sweep and its entry of file_hashes is the digest of
\* the content the sweep read; the entry of every other path (unchanged,
\* not hashed, excluded, gone) is as it was before the sweep: absent when
\* it was absent, the same digest otherwise.
C18_ChangedStoredOthersUntouched ==
    [][ (pc = "detect" /\ pc' \notin Exited) =>
          /\ changed_files' \subseteq current_files'
          /\ \A p \in changed_files' :
                /\ p \in DOMAIN file_hashes'
                /\ file_hashes'[p] = Md5(fs'[p])
          /\ \A p \in Paths \ changed_files' :
                /\ (p \in DOMAIN file_hashes') = (p \in DOMAIN file_hashes)
                /\ p \in DOMAIN file_hashes =>
                      file_hashes'[p] = file_hashes[p]
          /\ DOMAIN file_hashes' \subseteq Paths ]_vars

\* C18, witness: a sweep has reported one file and left the entry of a
\* file that is gone, holding the digest of its last content.
C18_Witness ==
    /\ pc = "copy"
    /\ changed_files # {}
    /\ \E q \in (DOMAIN file_hashes) \ current_files : fs[q] = 0

\* the files hashed in the sweep the state shows that were no candidates
\* of the sweep before (gone, or excluded)
Reappeared == (current_files \ hashFailed) \ (prevHashed \cup prevHashFailed)

\* C19: while the process lives no entry leaves file_hashes; a file that
\* was no candidate of the sweep before (deleted, or excluded) and comes
\* back with the content of its entry is not reported; and no step, of
\* this process or a later one, removes a copy from the mirror.
C19_EntriesAndCopiesStay ==
    [][ /\ pc' \notin Exited =>
              (DOMAIN file_hashes) \subseteq (DOMAIN file_hashes')
        /\ \A p \in Paths : mirror[p] # 0 => mirror'[p] # 0
        /\ pc = "detect" =>
              \A p \in (current_files' \ hashFailed')
                          \ (prevHashed \cup prevHashFailed) :
                 ( /\ p \in DOMAIN file_hashes
                   /\ file_hashes[p] = Md5(fs'[p]) )
                 => p \notin changed_files' ]_vars

\* C19, witness: a file with an entry and a copy was no candidate of the
\* sweep before; this sweep hashes it, finds the digest of its entry and
\* does not report it, while the copy of a file that is gone is still in
\* the mirror.
C19_Witness ==
    /\ Swept
    /\ ~first
    /\ \E p \in Reappeared :
         /\ p \notin changed_files
         /\ file_hashes[p] = Md5(fs[p])
    /\ \E q \in Paths : fs[q] = 0 /\ mirror[q] # 0

====
